---- MODULE Spec2Model ----
(***************************************************************************)
(* A model of blackjack.py: the deck (create_deck, shuffle_deck,           *)
(* deal_card), the hand evaluator (calculate_hand) and the round loop of   *)
(* main with its six statistics counters.                                  *)
(***************************************************************************)
EXTENDS Integers, Sequences, FiniteSets, TLC

VARIABLES
    pc,           \* where main is: the next statement it executes
    game_stats,   \* main's game_stats dictionary
    stats_file,   \* game_stats.json: <<the saved dictionary>>, or NoFile
    cards,        \* main's deck, the list bound to `cards`
    player_hand,  \* main's player_hand
    dealer_hand,  \* main's dealer_hand
    bust,         \* main's bust flag
    deal_i,       \* iterations of the initial dealing loop completed
    round_stats,  \* game_stats as they were when the current round began
    deals,        \* calls of deal_card so far
    dealt,        \* the cards deal_card has returned so far, as a set
    calc_hand,    \* the hand handed to calculate_hand (evaluator specification)
    calc_total    \* what calculate_hand returned for calc_hand

vars == <<pc, game_stats, stats_file, cards, player_hand, dealer_hand, bust,
          deal_i, calc_hand, calc_total, round_stats, deals, dealt>>

(***************************************************************************)
(* Bounds of the model.                                                    *)
(***************************************************************************)
\* The outcomes of random.shuffle the model considers.
NumShuffles == 2
\* The player asks for another round only while the games counter is below
\* MaxGames and fewer than MaxDeals cards have been dealt since the program
\* started; after that the player quits.
MaxGames == 9
MaxDeals == 52
\* Longest hand handed to calculate_hand in the evaluator specification.
MaxHandLen == 4

(***************************************************************************)
(* Cards and the deck.                                                     *)
(***************************************************************************)
suits == <<"Hearts", "Diamonds", "Clubs", "Spades">>

ranks == <<"2", "3", "4", "5", "6", "7", "8", "9", "10", "J", "Q", "K", "A">>

Card(suit, rank) == [suit |-> suit, rank |-> rank]

\* [Card(suit, rank) for suit in suits for rank in ranks]
create_deck ==
    [i \in 1..(Len(suits) * Len(ranks)) |->
        Card(suits[((i - 1) \div Len(ranks)) + 1], ranks[((i - 1) % Len(ranks)) + 1])]

\* The shuffles the model considers, one per seed: each is a primitive root
\* modulo 53, whose powers g^0 .. g^51 run through 1..52 in a scattered order.
Generators == <<5, 26, 21, 8, 12, 14, 39, 32>>

PowMod(g, e, m) ==
    LET RECURSIVE P(_)
        P(k) == IF k = 0 THEN 1 % m ELSE (P(k - 1) * g) % m
    IN P(e)

\* The position in the old list of the card that one outcome of the shuffle
\* puts at position i of a list of n cards.
ShuffleIndex(n, seed, i) ==
    IF n = 52
    THEN PowMod(Generators[((seed - 1) % Len(Generators)) + 1], i - 1, n + 1)
    ELSE ((i - 1 + seed) % n) + 1

\* A shuffle that draws every position afresh from the whole deck (sampling
\* with replacement) instead of permuting it.
shuffle_deck_sampling(deck, seed) ==
    [i \in 1..Len(deck) |->
        deck[(PowMod(Generators[((seed - 1) % Len(Generators)) + 1], i - 1, Len(deck)) % Len(deck)) + 1]]

\* random.shuffle(deck): the list after the in-place shuffle, for one of the
\* outcomes of the random generator.
shuffle_deck(deck, seed) ==
    [i \in 1..Len(deck) |-> deck[ShuffleIndex(Len(deck), seed, i)]]

Seeds == 1..NumShuffles

\* deck = create_deck(); shuffle_deck(deck): the new deck, per shuffle outcome.
NewShuffledDeck == [seed \in Seeds |-> shuffle_deck(create_deck, seed)]

\* deal_card returning deck[-1] without removing it from the list.
deal_card_keeping_card(deck, seed) ==
    IF deck = <<>>
    THEN LET new == NewShuffledDeck[seed]
         IN [card   |-> new[Len(new)],
             caller |-> deck,
             local  |-> new]
    ELSE [card   |-> deck[Len(deck)],
          caller |-> deck,
          local  |-> deck]

\* deal_card refilling the caller's list in place (deck.extend) before the pop.
deal_card_refilling_caller(deck, seed) ==
    IF deck = <<>>
    THEN LET new == NewShuffledDeck[seed]
         IN [card   |-> new[Len(new)],
             caller |-> SubSeq(new, 1, Len(new) - 1),
             local  |-> SubSeq(new, 1, Len(new) - 1)]
    ELSE [card   |-> deck[Len(deck)],
          caller |-> SubSeq(deck, 1, Len(deck) - 1),
          local  |-> SubSeq(deck, 1, Len(deck) - 1)]

\* deal_card taking the card from the wrong end of the list: deck.pop(0).
deal_card_from_bottom(deck, seed) ==
    IF deck = <<>>
    THEN LET new == NewShuffledDeck[seed]
         IN [card   |-> new[1],
             caller |-> deck,
             local  |-> SubSeq(new, 2, Len(new))]
    ELSE [card   |-> deck[1],
          caller |-> SubSeq(deck, 2, Len(deck)),
          local  |-> SubSeq(deck, 2, Len(deck))]

\* deal_card(deck): the card returned, the caller's list after the call and
\* the list the local name `deck` is bound to when the function returns.
deal_card(deck, seed) ==
    IF deck = <<>>
    THEN LET new == NewShuffledDeck[seed]
         IN [card   |-> new[Len(new)],
             caller |-> deck,
             local  |-> SubSeq(new, 1, Len(new) - 1)]
    ELSE [card   |-> deck[Len(deck)],
          caller |-> SubSeq(deck, 1, Len(deck) - 1),
          local  |-> SubSeq(deck, 1, Len(deck) - 1)]

(***************************************************************************)
(* The hand evaluator.                                                     *)
(***************************************************************************)
values(rank) ==
    CASE rank = "2" -> 2 [] rank = "3" -> 3 [] rank = "4" -> 4
      [] rank = "5" -> 5 [] rank = "6" -> 6 [] rank = "7" -> 7
      [] rank = "8" -> 8 [] rank = "9" -> 9 [] rank = "10" -> 10
      [] rank = "J" -> 10 [] rank = "Q" -> 10 [] rank = "K" -> 10
      [] rank = "A" -> 11

\* sum(1 for card in hand if card.rank == 'A')
CountAces(hand) == Cardinality({i \in 1..Len(hand) : hand[i].rank = "A"})

\* sum(values[card.rank] for card in hand)
SumValues(hand) ==
    LET RECURSIVE S(_)
        S(i) == IF i = 0 THEN 0 ELSE values(hand[i].rank) + S(i - 1)
    IN S(Len(hand))

\* while total > 21 and num_aces: total -= 10; num_aces -= 1
DemoteAces(total, num_aces) ==
    LET RECURSIVE D(_, _)
        D(t, n) == IF t > 21 /\ n # 0 THEN D(t - 10, n - 1) ELSE t
    IN D(total, num_aces)

\* calculate_hand with `if` in place of `while`: at most one Ace is demoted.
calculate_hand_single_demotion(hand) ==
    IF SumValues(hand) > 21 /\ CountAces(hand) # 0
    THEN SumValues(hand) - 10
    ELSE SumValues(hand)

calculate_hand(hand) == DemoteAces(SumValues(hand), CountAces(hand))

(***************************************************************************)
(* Statistics and their file.                                              *)
(***************************************************************************)
\* game_stats.json is a list holding the saved dictionary, empty when the
\* file does not exist (open raises FileNotFoundError).
NoFile == <<>>

DefaultStats ==
    [total_games |-> 0, total_wins |-> 0, total_losses |-> 0,
     total_ties |-> 0, player_busts |-> 0, dealer_busts |-> 0]

\* Contents game_stats.json may have when the program starts.
SavedStats ==
    {[total_games |-> 2, total_wins |-> 1, total_losses |-> 1,
      total_ties |-> 0, player_busts |-> 1, dealer_busts |-> 0]}

\* load_game_stats(): json.load of the file, or the defaults.
load_game_stats(file) == IF file = NoFile THEN DefaultStats ELSE file[1]

\* save_game_stats(stats): the file after json.dump.
save_game_stats(stats) == <<stats>>

Bump(stats, key) == [stats EXCEPT ![key] = @ + 1]

(***************************************************************************)
(* Console input.                                                          *)
(***************************************************************************)
Inputs == {"h", "H", "s", "S", "p", "P", "q", "Q", "x", ""}

\* str.upper() on the inputs above
Upper(s) ==
    CASE s = "h" -> "H" [] s = "s" -> "S" [] s = "p" -> "P" [] s = "q" -> "Q"
      [] s = "x" -> "X" [] OTHER -> s

(***************************************************************************)
(* main: the state after load_game_stats, create_deck and shuffle_deck.    *)
(***************************************************************************)
Init ==
    /\ stats_file \in {NoFile} \cup {<<s>> : s \in SavedStats}
    /\ game_stats = load_game_stats(stats_file)
    /\ \E seed \in Seeds : cards = NewShuffledDeck[seed]
    /\ player_hand = <<>>
    /\ dealer_hand = <<>>
    /\ bust = FALSE
    /\ deal_i = 0
    /\ round_stats = game_stats
    /\ deals = 0
    /\ dealt = {}
    /\ pc = "round_start"
    /\ calc_hand = <<>>
    /\ calc_total = 0

\* A save added right after the game is counted, before the round is played.
RoundStart_saving ==
    /\ pc = "round_start"
    /\ game_stats' = Bump(game_stats, "total_games")
    /\ stats_file' = save_game_stats(Bump(game_stats, "total_games"))
    /\ player_hand' = <<>>
    /\ dealer_hand' = <<>>
    /\ bust' = FALSE
    /\ deal_i' = 0
    /\ round_stats' = game_stats
    /\ pc' = "deal_player"
    /\ UNCHANGED <<cards, calc_hand, calc_total, deals, dealt>>

\* Lines 212-223: count the game, make two empty hands, clear the bust flag.
RoundStart ==
    /\ pc = "round_start"
    /\ game_stats' = Bump(game_stats, "total_games")
    /\ player_hand' = <<>>
    /\ dealer_hand' = <<>>
    /\ bust' = FALSE
    /\ deal_i' = 0
    /\ round_stats' = game_stats
    /\ pc' = "deal_player"
    /\ UNCHANGED <<stats_file, cards, calc_hand, calc_total, deals, dealt>>

\* The player's card put in with insert(0, card) instead of append.
DealPlayer_prepending ==
    /\ pc = "deal_player"
    /\ \E seed \in Seeds :
        LET d == deal_card(cards, seed) IN
        /\ player_hand' = <<d.card>> \o player_hand
        /\ cards' = d.caller
        /\ dealt' = dealt \cup {d.card}
    /\ pc' = "deal_dealer"
    /\ UNCHANGED <<game_stats, stats_file, dealer_hand, bust, deal_i,
                   calc_hand, calc_total, round_stats>>
    /\ deals' = deals + 1

\* Line 227: player_hand.append(deal_card(cards))
DealPlayer ==
    /\ pc = "deal_player"
    /\ \E seed \in Seeds :
        LET d == deal_card(cards, seed) IN
        /\ player_hand' = Append(player_hand, d.card)
        /\ cards' = d.caller
        /\ dealt' = dealt \cup {d.card}
    /\ pc' = "deal_dealer"
    /\ UNCHANGED <<game_stats, stats_file, dealer_hand, bust, deal_i,
                   calc_hand, calc_total, round_stats>>
    /\ deals' = deals + 1

\* The dealing loop written with range(3): three cards to each hand.
DealDealer_three_each ==
    /\ pc = "deal_dealer"
    /\ \E seed \in Seeds :
        LET d == deal_card(cards, seed) IN
        /\ dealer_hand' = Append(dealer_hand, d.card)
        /\ cards' = d.caller
        /\ dealt' = dealt \cup {d.card}
    /\ deal_i' = deal_i + 1
    /\ pc' = IF deal_i + 1 < 3 THEN "deal_player" ELSE "player_turn"
    /\ UNCHANGED <<game_stats, stats_file, player_hand, bust, calc_hand, calc_total, round_stats>>
    /\ deals' = deals + 1

\* Line 228: dealer_hand.append(deal_card(cards)), then the loop test of line 226.
DealDealer ==
    /\ pc = "deal_dealer"
    /\ \E seed \in Seeds :
        LET d == deal_card(cards, seed) IN
        /\ dealer_hand' = Append(dealer_hand, d.card)
        /\ cards' = d.caller
        /\ dealt' = dealt \cup {d.card}
    /\ deal_i' = deal_i + 1
    /\ pc' = IF deal_i + 1 < 2 THEN "deal_player" ELSE "player_turn"
    /\ UNCHANGED <<game_stats, stats_file, player_hand, bust, calc_hand, calc_total, round_stats>>
    /\ deals' = deals + 1

\* The bust branch without line 256: the bust is counted, the loss is not.
AfterHit_busts_only(hand) ==
    LET player_total == calculate_hand(hand) IN
    IF player_total > 21
    THEN /\ bust' = TRUE
         /\ game_stats' = Bump(game_stats, "player_busts")
         /\ pc' = "dealer_turn"
    ELSE /\ pc' = "player_turn"
         /\ UNCHANGED <<bust, game_stats>>

\* Lines 250-259: what a hit does once the new card is in the hand.
AfterHit(hand) ==
    LET player_total == calculate_hand(hand) IN
    IF player_total > 21
    THEN /\ bust' = TRUE
         /\ game_stats' = Bump(Bump(game_stats, "player_busts"), "total_losses")
         /\ pc' = "dealer_turn"
    ELSE /\ pc' = "player_turn"
         /\ UNCHANGED <<bust, game_stats>>

\* Lines 239-259: the player hits.
Hit(action) ==
    /\ pc = "player_turn"
    /\ Upper(action) = "H"
    /\ \E seed \in Seeds :
        LET d == deal_card(cards, seed) IN
        /\ player_hand' = Append(player_hand, d.card)
        /\ cards' = d.caller
        /\ dealt' = dealt \cup {d.card}
        /\ AfterHit(Append(player_hand, d.card))
    /\ UNCHANGED <<stats_file, dealer_hand, deal_i, calc_hand, calc_total, round_stats>>
    /\ deals' = deals + 1

\* Lines 262-263: the player stands.
Stand(action) ==
    /\ pc = "player_turn"
    /\ Upper(action) # "H"
    /\ Upper(action) = "S"
    /\ pc' = "dealer_turn"
    /\ UNCHANGED <<game_stats, stats_file, cards, player_hand, dealer_hand, bust,
                   deal_i, calc_hand, calc_total, round_stats, deals, dealt>>

\* The final else written as a second way to stand: any other input ends
\* the player's turn.
InvalidAction_as_stand(action) ==
    /\ pc = "player_turn"
    /\ Upper(action) # "H"
    /\ Upper(action) # "S"
    /\ pc' = "dealer_turn"
    /\ UNCHANGED <<game_stats, stats_file, cards, player_hand, dealer_hand, bust,
                   deal_i, calc_hand, calc_total, round_stats, deals, dealt>>

\* Lines 264-265: any other input is reported and the prompt repeats.
InvalidAction(action) ==
    /\ pc = "player_turn"
    /\ Upper(action) # "H"
    /\ Upper(action) # "S"
    /\ UNCHANGED vars

\* The dealer's turn entered without looking at the bust flag.
DealerTurn_ignoring_bust ==
    /\ pc = "dealer_turn"
    /\ pc' = "dealer_draw"
    /\ UNCHANGED <<game_stats, stats_file, cards, player_hand, dealer_hand, bust,
                   deal_i, calc_hand, calc_total, round_stats, deals, dealt>>

\* Line 268: the dealer plays only if the player has not bust.
DealerTurn ==
    /\ pc = "dealer_turn"
    /\ pc' = IF ~bust THEN "dealer_draw" ELSE "result"
    /\ UNCHANGED <<game_stats, stats_file, cards, player_hand, dealer_hand, bust,
                   deal_i, calc_hand, calc_total, round_stats, deals, dealt>>

\* The loop test written with <= : the dealer also draws on 17.
DealerMustDraw_on_17(hand) == calculate_hand(hand) <= 17

\* Line 274: the test of the dealer's drawing loop.
DealerMustDraw(hand) == calculate_hand(hand) < 17

\* Lines 281-285: what a dealer draw does once the new card is in the hand.
AfterDraw(hand) ==
    LET dealer_total == calculate_hand(hand) IN
    IF dealer_total > 21
    THEN /\ game_stats' = Bump(Bump(game_stats, "dealer_busts"), "total_wins")
         /\ pc' = "result"
    ELSE /\ pc' = "dealer_draw"
         /\ UNCHANGED game_stats

\* Lines 274-285: one iteration of the dealer's drawing loop.
DealerDraw ==
    /\ pc = "dealer_draw"
    /\ DealerMustDraw(dealer_hand)
    /\ \E seed \in Seeds :
        LET d == deal_card(cards, seed) IN
        /\ dealer_hand' = Append(dealer_hand, d.card)
        /\ cards' = d.caller
        /\ dealt' = dealt \cup {d.card}
        /\ AfterDraw(Append(dealer_hand, d.card))
    /\ UNCHANGED <<stats_file, player_hand, bust, deal_i, calc_hand, calc_total, round_stats>>
    /\ deals' = deals + 1

\* The loop left only above 17: on exactly 17 the dealer neither draws nor
\* stands.
DealerStand_above_17 ==
    /\ pc = "dealer_draw"
    /\ calculate_hand(dealer_hand) > 17
    /\ pc' = "result"
    /\ UNCHANGED <<game_stats, stats_file, cards, player_hand, dealer_hand, bust,
                   deal_i, calc_hand, calc_total, round_stats, deals, dealt>>

\* Line 274: the loop test fails and the dealer stands.
DealerStand ==
    /\ pc = "dealer_draw"
    /\ ~DealerMustDraw(dealer_hand)
    /\ pc' = "result"
    /\ UNCHANGED <<game_stats, stats_file, cards, player_hand, dealer_hand, bust,
                   deal_i, calc_hand, calc_total, round_stats, deals, dealt>>

\* The comparison without `and player_total <= 21`.
Outcome_no_player_limit(player_total, dealer_total) ==
    IF player_total = dealer_total THEN "total_ties"
    ELSE IF player_total > dealer_total THEN "total_wins"
    ELSE IF dealer_total > player_total /\ dealer_total <= 21 THEN "total_losses"
    ELSE "none"

\* The comparison without `and dealer_total <= 21`.
Outcome_no_dealer_limit(player_total, dealer_total) ==
    IF player_total = dealer_total THEN "total_ties"
    ELSE IF player_total > dealer_total /\ player_total <= 21 THEN "total_wins"
    ELSE IF dealer_total > player_total THEN "total_losses"
    ELSE "none"

\* The comparison with the two inequalities the wrong way round.
Outcome_swapped(player_total, dealer_total) ==
    IF player_total = dealer_total THEN "total_ties"
    ELSE IF player_total < dealer_total /\ dealer_total <= 21 THEN "total_wins"
    ELSE IF dealer_total < player_total /\ player_total <= 21 THEN "total_losses"
    ELSE "none"

\* Lines 298-309: the counter the final comparison increments, or "none".
Outcome(player_total, dealer_total) ==
    IF player_total = dealer_total THEN "total_ties"
    ELSE IF player_total > dealer_total /\ player_total <= 21 THEN "total_wins"
    ELSE IF dealer_total > player_total /\ dealer_total <= 21 THEN "total_losses"
    ELSE "none"

\* Lines 288-309: the final totals and the comparison.
Result ==
    /\ pc = "result"
    /\ LET player_total == calculate_hand(player_hand)
           dealer_total == calculate_hand(dealer_hand)
           key == Outcome(player_total, dealer_total)
       IN game_stats' = IF key = "none" THEN game_stats ELSE Bump(game_stats, key)
    /\ pc' = "save"
    /\ UNCHANGED <<stats_file, cards, player_hand, dealer_hand, bust, deal_i,
                   calc_hand, calc_total, round_stats, deals, dealt>>

\* Line 311: save_game_stats(game_stats)
Save ==
    /\ pc = "save"
    /\ stats_file' = save_game_stats(game_stats)
    /\ pc' = "play_again"
    /\ UNCHANGED <<game_stats, cards, player_hand, dealer_hand, bust, deal_i,
                   calc_hand, calc_total, round_stats, deals, dealt>>

\* Play again that counts the new game itself, on top of line 212.
PlayAgain_counting_game(answer) ==
    /\ pc = "play_again"
    /\ Upper(answer) = "P"
    /\ game_stats.total_games < MaxGames
    /\ deals < MaxDeals
    /\ game_stats' = Bump(game_stats, "total_games")
    /\ pc' = "round_start"
    /\ UNCHANGED <<stats_file, cards, player_hand, dealer_hand, bust,
                   deal_i, calc_hand, calc_total, round_stats, deals, dealt>>

\* Lines 182-184: play again; main's loop starts over.
PlayAgain(answer) ==
    /\ pc = "play_again"
    /\ Upper(answer) = "P"
    /\ game_stats.total_games < MaxGames
    /\ deals < MaxDeals
    /\ pc' = "round_start"
    /\ UNCHANGED <<game_stats, stats_file, cards, player_hand, dealer_hand, bust,
                   deal_i, calc_hand, calc_total, round_stats, deals, dealt>>

\* Lines 185-186: quit() ends the process.
Quit(answer) ==
    /\ pc = "play_again"
    /\ Upper(answer) # "P"
    /\ Upper(answer) = "Q"
    /\ pc' = "quit"
    /\ UNCHANGED <<game_stats, stats_file, cards, player_hand, dealer_hand, bust,
                   deal_i, calc_hand, calc_total, round_stats, deals, dealt>>

\* Lines 187-188: any other answer is reported and the prompt repeats.
InvalidAnswer(answer) ==
    /\ pc = "play_again"
    /\ Upper(answer) # "P"
    /\ Upper(answer) # "Q"
    /\ UNCHANGED vars

Next ==
    \/ RoundStart
    \/ DealPlayer
    \/ DealDealer
    \/ \E action \in Inputs : Hit(action)
    \/ \E action \in Inputs : Stand(action)
    \/ \E action \in Inputs : InvalidAction(action)
    \/ DealerTurn
    \/ DealerDraw
    \/ DealerStand
    \/ Result
    \/ Save
    \/ \E answer \in Inputs : PlayAgain(answer)
    \/ \E answer \in Inputs : Quit(answer)
    \/ \E answer \in Inputs : InvalidAnswer(answer)

Spec == Init /\ [][Next]_vars

(***************************************************************************)
(* The hand evaluator on its own: calculate_hand applied to every hand of  *)
(* up to MaxHandLen cards, built one card at a time.  calculate_hand reads *)
(* only the rank of a card, so the hands are drawn from one suit.          *)
(***************************************************************************)
CalcCards == {Card("Spades", ranks[i]) : i \in 1..Len(ranks)}

InitCalc ==
    /\ calc_hand = <<>>
    /\ calc_total = calculate_hand(<<>>)
    /\ pc = "calculate_hand"
    /\ stats_file = NoFile
    /\ game_stats = DefaultStats
    /\ round_stats = DefaultStats
    /\ deals = 0
    /\ dealt = {}
    /\ cards = <<>>
    /\ player_hand = <<>>
    /\ dealer_hand = <<>>
    /\ bust = FALSE
    /\ deal_i = 0

Evaluate(card) ==
    /\ Len(calc_hand) < MaxHandLen
    /\ calc_hand' = Append(calc_hand, card)
    /\ calc_total' = calculate_hand(Append(calc_hand, card))
    /\ UNCHANGED <<pc, game_stats, stats_file, cards, player_hand, dealer_hand,
                   bust, deal_i, round_stats, deals, dealt>>

NextCalc == \E card \in CalcCards : Evaluate(card)

SpecCalc == InitCalc /\ [][NextCalc]_vars

(***************************************************************************)
(* Properties.                                                             *)
(***************************************************************************)
PlayerTotal == calculate_hand(player_hand)

DealerTotal == calculate_hand(dealer_hand)

\* How much a counter has grown since the current round began.
Delta(key) == game_stats[key] - round_stats[key]

\* The round is over: its outcome has been recorded and reported.
RoundCompleted == pc \in {"save", "play_again", "quit"}

\* The states a round is in once one side has gone over 21.
AfterBust == pc \in {"dealer_turn", "result", "save", "play_again", "quit", "round_start"}

\* A step in which deal_card handed a card to one of the hands.
DealStep ==
    Len(player_hand') + Len(dealer_hand') = Len(player_hand) + Len(dealer_hand) + 1

ToSet(seq) == {seq[i] : i \in 1..Len(seq)}

Ranks(hand) == [i \in 1..Len(hand) |-> hand[i].rank]

AllCards == {Card(suits[i], ranks[j]) : i \in 1..Len(suits), j \in 1..Len(ranks)}

NoDuplicates(deck) == Cardinality(ToSet(deck)) = Len(deck)

\* The card the hand that grew in this step received.
DealtCard ==
    IF Len(player_hand') > Len(player_hand)
    THEN player_hand'[Len(player_hand')]
    ELSE dealer_hand'[Len(dealer_hand')]

\* C1: in every completed round exactly one of total_wins, total_losses and
\* total_ties has grown, by exactly 1, and the other two are unchanged,
\* whether the player bust, the dealer bust or the totals were compared.
C1_OneOutcomePerRound ==
    RoundCompleted =>
        /\ \A key \in {"total_wins", "total_losses", "total_ties"} : Delta(key) \in {0, 1}
        /\ Delta("total_wins") + Delta("total_losses") + Delta("total_ties") = 1

\* A round is completed in a run that has seen every kind of outcome.
C1_Witness ==
    /\ pc = "save"
    /\ \A key \in {"total_wins", "total_losses", "total_ties", "player_busts",
                   "dealer_busts"} : game_stats[key] >= 2

\* C2: a deal_card call on main's empty deck leaves main's deck holding the
\* 51 cards of the replacement deck that remain after the dealt card.
C2_EmptyDeckReplaced ==
    [][(cards = <<>> /\ DealStep) =>
          /\ DealtCard \in AllCards
          /\ Len(cards') = 51
          /\ NoDuplicates(cards')
          /\ DealtCard \notin ToSet(cards')]_vars

\* The reference total: the largest sum at most 21 over the ways of counting
\* each Ace as 1 or 11, or the sum with every Ace as 1 when there is none.
BestTotal(hand) ==
    LET low == SumValues(hand) - 10 * CountAces(hand)
        sums == {low + 10 * high : high \in 0..CountAces(hand)}
        good == {t \in sums : t <= 21}
    IN IF good = {} THEN low ELSE CHOOSE t \in good : \A u \in good : u <= t

\* The same total, by the smallest number of demotions that reaches 21 or less.
LeastDemotionTotal(hand) ==
    LET n == CountAces(hand)
        enough == {k \in 0..n : SumValues(hand) - 10 * k <= 21}
        k == IF enough = {} THEN n ELSE CHOOSE j \in enough : \A i \in enough : j <= i
    IN SumValues(hand) - 10 * k

\* C3: for every hand calculate_hand returns the best total: the largest sum
\* at most 21 over the values 1 and 11 of each Ace, else the unclamped sum
\* with every Ace as 1; [A,A] is 12, [K,A] is 21 and [10,9,5] is 24.
C3_CalculateHandBestTotal ==
    /\ calc_total = BestTotal(calc_hand)
    /\ calc_total = LeastDemotionTotal(calc_hand)
    /\ Ranks(calc_hand) = <<"A", "A">> => calc_total = 12
    /\ Ranks(calc_hand) = <<"K", "A">> => calc_total = 21
    /\ Ranks(calc_hand) = <<"10", "9", "5">> => calc_total = 24

\* A hand in which both Aces had to be demoted.
C3_Witness ==
    /\ Ranks(calc_hand) = <<"K", "A", "A">>
    /\ calc_total = 12

\* C4: once a hit has taken the player over 21 the player's turn is over,
\* the dealer's drawing loop is never entered and the dealer keeps the 2
\* initial cards; the round adds exactly 1 to player_busts and to
\* total_losses and nothing to total_wins, total_ties and dealer_busts.
C4_PlayerBustRound ==
    PlayerTotal > 21 =>
        /\ bust
        /\ AfterBust
        /\ Len(dealer_hand) = 2
        /\ Delta("player_busts") = 1
        /\ Delta("total_losses") = 1
        /\ Delta("total_wins") = 0
        /\ Delta("total_ties") = 0
        /\ Delta("dealer_busts") = 0

\* A round that ended with the player over 21 after two hits.
C4_Witness ==
    /\ pc = "save"
    /\ PlayerTotal > 21
    /\ Len(player_hand) = 4

\* The dealer takes a card after the initial deal.
DealerDrew ==
    /\ Len(dealer_hand) >= 2
    /\ Len(dealer_hand') = Len(dealer_hand) + 1

\* C5: the dealer draws only while the total is below 17 and the player has
\* not bust, never at 17 or more, and leaves the drawing loop with 17 or more.
C5_DealerThreshold ==
    [][/\ DealerDrew => (DealerTotal < 17 /\ PlayerTotal <= 21 /\ ~bust)
       /\ (pc = "dealer_draw" /\ pc' # "dealer_draw") => DealerTotal' >= 17]_vars

\* The dealer drew, then stood on a total below the player's.
C5_Witness ==
    /\ pc = "result"
    /\ Len(dealer_hand) > 2
    /\ DealerTotal \in 17..21
    /\ DealerTotal < PlayerTotal
    /\ PlayerTotal <= 21

\* C6: once a draw has taken the dealer over 21 the dealer draws no more;
\* the round adds exactly 1 to dealer_busts and to total_wins, and the final
\* comparison adds nothing: total_losses, total_ties and player_busts are
\* unchanged and total_wins is not incremented again.
C6_DealerBustRound ==
    DealerTotal > 21 =>
        /\ ~bust
        /\ AfterBust
        /\ pc # "dealer_turn"
        /\ Delta("dealer_busts") = 1
        /\ Delta("total_wins") = 1
        /\ Delta("total_losses") = 0
        /\ Delta("total_ties") = 0
        /\ Delta("player_busts") = 0

\* A round that ended with the dealer over 21, past the final comparison.
C6_Witness ==
    /\ pc = "play_again"
    /\ DealerTotal > 21
    /\ Len(dealer_hand) >= 3

\* The counter a comparison of two totals of at most 21 calls for.
ComparedKey(player_total, dealer_total) ==
    IF player_total = dealer_total THEN "total_ties"
    ELSE IF player_total > dealer_total THEN "total_wins"
    ELSE "total_losses"

\* C7: when neither side bust, the round records the outcome the comparison
\* of the final totals calls for (tie, win or loss) and nothing else; and
\* the final comparison increments a counter only when both totals are at
\* most 21.
C7_ComparisonOutcome ==
    [][(pc = "result" /\ pc' = "save") =>
          /\ (PlayerTotal <= 21 /\ DealerTotal <= 21) =>
                game_stats' = Bump(Bump(round_stats, "total_games"),
                                   ComparedKey(PlayerTotal, DealerTotal))
          /\ game_stats' # game_stats => (PlayerTotal <= 21 /\ DealerTotal <= 21)]_vars

\* The dealer drew up to a total that beats the player's.
C7_Witness ==
    /\ pc = "save"
    /\ Len(dealer_hand) > 2
    /\ DealerTotal <= 21
    /\ DealerTotal > PlayerTotal
    /\ Delta("total_losses") = 1

\* C8: total_games changes only in the step that starts a round, by exactly
\* 1 and before any card of the round is dealt; at every later point of the
\* round it is 1 more than when the round began.
C8_GamesCountedAtRoundStart ==
    [][/\ game_stats'.total_games # game_stats.total_games =>
            /\ game_stats'.total_games = game_stats.total_games + 1
            /\ pc = "round_start"
            /\ player_hand' = <<>>
            /\ dealer_hand' = <<>>
            /\ cards' = cards
       /\ pc' # "round_start" => game_stats'.total_games = round_stats'.total_games + 1]_vars

\* A later round has been counted and none of its cards dealt.
C8_Witness ==
    /\ pc = "deal_player"
    /\ player_hand = <<>>
    /\ dealer_hand = <<>>
    /\ Len(cards) < 40
    /\ game_stats.total_games = round_stats.total_games + 1
    /\ stats_file # NoFile

\* create_deck holds each (suit, rank) pair once, and nothing else.
CreateDeckComplete ==
    /\ Len(create_deck) = 52
    /\ Cardinality(AllCards) = 52
    /\ ToSet(create_deck) = AllCards

\* Every shuffle outcome of a new deck holds the cards of the new deck.
ShufflePermutes ==
    \A seed \in Seeds :
        /\ Len(NewShuffledDeck[seed]) = Len(create_deck)
        /\ ToSet(NewShuffledDeck[seed]) = ToSet(create_deck)

\* C9: create_deck yields 52 cards, one per (suit, rank) pair; shuffle_deck
\* gives the same cards in some order; and main's deck never holds a card
\* twice nor more than 52 cards.
C9_DecksDuplicateFree ==
    /\ CreateDeckComplete
    /\ ShufflePermutes
    /\ NoDuplicates(cards)
    /\ Len(cards) <= 52
    /\ ToSet(cards) \subseteq AllCards

\* A deck most of which has been dealt is about to be dealt from again.
C9_Witness ==
    /\ pc = "deal_player"
    /\ Len(cards) \in 1..9

\* C10: a deal from a non-empty deck takes exactly its last card: the card
\* goes to the end of one hand, and the deck keeps its other cards in order.
C10_DealPopsTop ==
    [][(cards # <<>> /\ DealStep) =>
          /\ Len(cards') = Len(cards) - 1
          /\ cards' = SubSeq(cards, 1, Len(cards) - 1)
          /\ \/ /\ player_hand' = Append(player_hand, cards[Len(cards)])
                /\ dealer_hand' = dealer_hand
             \/ /\ dealer_hand' = Append(dealer_hand, cards[Len(cards)])
                /\ player_hand' = player_hand]_vars

\* The last card of a deck went to the player on a hit.
C10_Witness ==
    /\ pc = "player_turn"
    /\ Len(player_hand) = 3
    /\ Len(cards) = 47

\* C11: a round starts with two empty hands; the first four cards dealt in
\* it go to the player, the dealer, the player and the dealer in that order,
\* each the top card of a non-empty deck; and at the first hit/stand prompt
\* both hands hold exactly 2 cards.
C11_InitialDeal ==
    [][/\ (pc = "round_start" /\ pc' # "round_start") =>
            (player_hand' = <<>> /\ dealer_hand' = <<>>)
       /\ (DealStep /\ Len(player_hand) + Len(dealer_hand) < 4) =>
            /\ cards # <<>> => DealtCard = cards[Len(cards)]
            /\ IF (Len(player_hand) + Len(dealer_hand)) % 2 = 0
               THEN /\ player_hand' = Append(player_hand, DealtCard)
                    /\ dealer_hand' = dealer_hand
               ELSE /\ dealer_hand' = Append(dealer_hand, DealtCard)
                    /\ player_hand' = player_hand
       /\ (pc # "player_turn" /\ pc' = "player_turn") =>
            (Len(player_hand') = 2 /\ Len(dealer_hand') = 2)]_vars

\* The first prompt of a later round, its four cards dealt from the deck.
C11_Witness ==
    /\ pc = "player_turn"
    /\ Len(player_hand) = 2
    /\ Len(dealer_hand) = 2
    /\ Len(cards) \in 1..44
    /\ deals = 52 - Len(cards)

\* What main does with one line typed at the hit/stand prompt.
ActionPrompt(action) == Hit(action) \/ Stand(action) \/ InvalidAction(action)

\* What play_again does with one line typed at its prompt.
AnswerPrompt(answer) == PlayAgain(answer) \/ Quit(answer) \/ InvalidAnswer(answer)

\* C12: at the hit/stand prompt an input other than h, H, s, S, and at the
\* play-again prompt an input other than p, P, q, Q, is taken and changes
\* nothing: hands, deck, counters, bust flag and the prompt stay as they are.
C12_InvalidInputRejected ==
    /\ pc = "player_turn" =>
        \A action \in Inputs \ {"h", "H", "s", "S"} :
            /\ ENABLED ActionPrompt(action)
            /\ ~ENABLED (ActionPrompt(action) /\ vars' # vars)
    /\ pc = "play_again" =>
        \A answer \in Inputs \ {"p", "P", "q", "Q"} :
            /\ ENABLED AnswerPrompt(answer)
            /\ ~ENABLED (AnswerPrompt(answer) /\ vars' # vars)

\* The prompt after a hit, where a line that is neither hit nor stand is read.
C12_Witness ==
    /\ pc = "player_turn"
    /\ Len(player_hand) = 3
    /\ ENABLED InvalidAction("x")
    /\ ~ENABLED Hit("x")
    /\ ~ENABLED Stand("x")

\* new is old with exactly one card added at its end.
Appended(old, new) ==
    /\ Len(new) = Len(old) + 1
    /\ SubSeq(new, 1, Len(old)) = old

\* C13 as stated: within a round a hand changes only by one card appended;
\* the player's hand grows only on a hit and the dealer's hand only during
\* the dealer's turn.
C13_GrowOnlyOnHitOrDealerTurn ==
    [][pc # "round_start" =>
        /\ \/ player_hand' = player_hand
           \/ Appended(player_hand, player_hand') /\ pc = "player_turn"
        /\ \/ dealer_hand' = dealer_hand
           \/ Appended(dealer_hand, dealer_hand') /\ pc = "dealer_draw"]_vars

\* C13, amended: within a round a hand changes only by one card appended,
\* never both hands in one step; the player's hand grows only in the initial
\* deal (to two cards) or on a hit, and the dealer's hand only in the initial
\* deal (to two cards) or during the dealer's turn.
C13_HandsOnlyGrow ==
    [][pc # "round_start" =>
        /\ \/ player_hand' = player_hand
           \/ /\ Appended(player_hand, player_hand')
              /\ dealer_hand' = dealer_hand
              /\ \/ pc = "player_turn"
                 \/ pc = "deal_player" /\ Len(player_hand) < 2
        /\ \/ dealer_hand' = dealer_hand
           \/ /\ Appended(dealer_hand, dealer_hand')
              /\ player_hand' = player_hand
              /\ \/ pc = "dealer_draw"
                 \/ pc = "deal_dealer" /\ Len(dealer_hand) < 2]_vars

\* A round in which the player has hit and the dealer has drawn.
C13_Witness ==
    /\ pc = "result"
    /\ Len(player_hand) = 3
    /\ Len(dealer_hand) = 3

\* The positions of main between two rounds: after the save and before the
\* next round's total_games increment.
BetweenRounds == pc \in {"play_again", "quit", "round_start"}

\* C14: the statistics are saved once per round: the file is written only by
\* the step at the save position, after the round's outcome counter was
\* recorded, and the play-again prompt is entered only by that step; until
\* then the file still holds the counters the round started with; between
\* the save and the next total_games increment the counters do not change
\* and equal the file.
C14_SaveOncePerRound ==
    [][/\ stats_file' # stats_file =>
            /\ pc = "save"
            /\ pc' = "play_again"
            /\ stats_file' = <<game_stats>>
            /\ game_stats' = game_stats
            /\ Delta("total_games") = 1
            /\ Delta("total_wins") + Delta("total_losses") + Delta("total_ties") = 1
       /\ (pc # "play_again" /\ pc' = "play_again") =>
            (pc = "save" /\ stats_file' # stats_file)
       /\ ~BetweenRounds => load_game_stats(stats_file) = round_stats
       /\ BetweenRounds =>
            /\ load_game_stats(stats_file) = game_stats
            /\ game_stats' # game_stats =>
                 /\ pc = "round_start"
                 /\ game_stats' = Bump(game_stats, "total_games")
                 /\ stats_file' = stats_file]_vars

\* The prompt after the second round's save, both rounds in the file.
C14_Witness ==
    /\ pc = "play_again"
    /\ stats_file = <<game_stats>>
    /\ game_stats.total_games = 2
    /\ game_stats.total_wins + game_stats.total_losses + game_stats.total_ties = 2

\* Lines 20-30 and 209 when stats.json does not exist: main starts from the
\* default, all-zero counters.
InitFresh ==
    /\ Init
    /\ stats_file = NoFile

SpecFresh == InitFresh /\ [][Next]_vars

\* C15: starting without a statistics file, at every save the games counted
\* are the wins, losses and ties together; always the player's busts are at
\* most the losses and the dealer's busts at most the wins; and no step
\* lowers a counter.
C15_CountersConsistent ==
    [][/\ pc = "save" =>
            game_stats.total_games =
                game_stats.total_wins + game_stats.total_losses + game_stats.total_ties
       /\ game_stats.player_busts <= game_stats.total_losses
       /\ game_stats.dealer_busts <= game_stats.total_wins
       /\ game_stats'.player_busts <= game_stats'.total_losses
       /\ game_stats'.dealer_busts <= game_stats'.total_wins
       /\ \A key \in DOMAIN game_stats : game_stats'[key] >= game_stats[key]]_vars

\* A save after both kinds of bust have been counted, from zero counters.
C15_Witness ==
    /\ pc = "save"
    /\ game_stats.player_busts >= 1
    /\ game_stats.dealer_busts >= 1
    /\ game_stats.total_losses > game_stats.player_busts
    /\ game_stats.total_games =
           game_stats.total_wins + game_stats.total_losses + game_stats.total_ties

\* main is one sequential process: each statement runs once control reaches
\* it, and input() returns once a line is typed.  A rejected line leaves
\* every variable as it was, so it is a stuttering step; weak fairness of
\* Next says that a step which changes the state is eventually taken, which
\* at a prompt is the player entering a valid action.
SpecLive == Spec /\ WF_vars(Next)

InRound ==
    pc \in {"round_start", "deal_player", "deal_dealer", "player_turn",
            "dealer_turn", "dealer_draw", "result"}

\* C16: every round terminates when the player eventually enters a valid
\* action: from every position of a round the save is reached, before and
\* after the deck is exhausted; a hand asked for a hit has at most 21 cards
\* and a dealer hand that must draw at most 16.
C16_RoundTerminates ==
    /\ [](pc = "player_turn" => Len(player_hand) <= 21)
    /\ [](pc = "dealer_draw" /\ DealerMustDraw(dealer_hand) => Len(dealer_hand) <= 16)
    /\ InRound ~> (pc = "save")

\* The dealer has drawn on a soft 16 and still holds 16, now hard, and must
\* draw again.
C16_Witness ==
    /\ pc = "dealer_draw"
    /\ Len(dealer_hand) >= 3
    /\ calculate_hand(dealer_hand) = 16
    /\ calculate_hand(SubSeq(dealer_hand, 1, Len(dealer_hand) - 1)) = 16
    /\ ENABLED DealerDraw

\* deal_card has not yet been called on an empty deck: every call so far
\* took a card of the first deck.
BeforeRefill == deals <= Len(create_deck)

\* C17: until deal_card is first called on an empty deck, the cards left in
\* the deck and the cards dealt since the start are pairwise distinct and
\* together the 52 cards; the hands share no card and hold no card twice.
C17_NoCardDealtTwice ==
    BeforeRefill =>
        /\ NoDuplicates(cards)
        /\ Cardinality(dealt) = deals
        /\ ToSet(cards) \cap dealt = {}
        /\ ToSet(cards) \cup dealt = AllCards
        /\ Len(cards) + deals = Cardinality(AllCards)
        /\ ToSet(player_hand) \cup ToSet(dealer_hand) \subseteq dealt
        /\ NoDuplicates(player_hand \o dealer_hand)

\* The last card of the first deck has just been dealt into a hand.
C17_Witness ==
    /\ cards = <<>>
    /\ deals = Len(create_deck)
    /\ dealt = AllCards
    /\ pc \in {"deal_dealer", "player_turn", "dealer_draw", "result"}
    /\ Len(player_hand) >= 2

\* C18: once the deck of main is empty it is empty in every later state;
\* every card dealt from then on is the top card of a deck newly built and
\* shuffled for that call.  (That a card can then come twice into one hand
\* of a round is the state of C18_Witness.)
C18_EmptyDeckStaysEmpty ==
    [][cards = <<>> =>
        /\ cards' = <<>>
        /\ DealStep =>
            /\ \E seed \in Seeds :
                 DealtCard = NewShuffledDeck[seed][Len(NewShuffledDeck[seed])]
            /\ deals' > Len(create_deck)]_vars

\* With the deck empty, the player holds the same card twice.
C18_Witness ==
    /\ cards = <<>>
    /\ pc = "player_turn"
    /\ ~NoDuplicates(player_hand)

====
